---------------------------- MODULE Spec2Model ----------------------------
(***************************************************************************)
(* A model of flet_carousel_slider.py: the Carousel control (an attribute  *)
(* and event adapter over flet's Control) and its two typed events.        *)
(*                                                                         *)
(* Python strings are sequences of one-character strings, so formatting,   *)
(* splitting and parsing are computed character by character.  Python      *)
(* values are tagged records [t, v].  A call that raises is modelled by    *)
(* the record [exc |-> <exception class>].                                 *)
(*                                                                         *)
(* The methods Carousel inherits from flet's Control (_set_attr,           *)
(* _get_attr, _add_event_handler, update) are not part of the repository;  *)
(* they are modelled after flet's attribute store: _set_attr keeps the     *)
(* value (None becomes "") with a dirty flag, _get_attr converts a stored  *)
(* string according to data_type, update() sends the dirty attributes of a *)
(* mounted control to the host.                                            *)
(***************************************************************************)
EXTENDS Integers, Sequences, FiniteSets, TLC

VARIABLES
    attrs,           \* attrs[i][key]: the entry of Control.__attrs of instance i
    private,         \* private[i][o]: the name-mangled field behind an enum option
    controls,        \* controls[i]: Carousel.__controls, the ordered child list
    cmd_counter,     \* cmd_counter[i]: Carousel.__cmd_counter
    on_handler,      \* on_handler[i][ev]: Carousel.__on_change / __on_scrolled
    event_handlers,  \* event_handlers[i][ev]: what _add_event_handler registered
    hostCmds,        \* hostCmds[i]: the __animateTo values the host received, in order
    updates,         \* updates[i]: how many times update() ran on instance i
    written,         \* written[i]: the navigation calls and the command each wrote, in order
    lastCall,        \* the last operation of the application or the host
    outcome,         \* what the last operation returned or raised
    invoked,         \* the application handlers the last delivery invoked
    touched,         \* touched[i]: the options assigned since construction
    nops             \* the number of operations performed so far

vars == << attrs, private, controls, cmd_counter, on_handler, event_handlers,
           hostCmds, updates, written, lastCall, outcome, invoked, touched, nops >>

-----------------------------------------------------------------------------
(* Bounds of the model. *)

\* The number of operations (calls and deliveries) of one behaviour.
MaxOps == 3

\* The number of navigation calls on one instance.
MaxCmds == 2

\* The number of setter calls where only the option setters run.
MaxSets == 2

\* The Carousel instances of the application.
Instances == {1, 2}

-----------------------------------------------------------------------------
(* Python values. *)

PyNone == [t |-> "none", v |-> <<>>]
PyBool(b) == [t |-> "bool", v |-> b]
PyInt(n) == [t |-> "int", v |-> n]
\* A float is the rational v[1] / v[2], v[2] > 0.
PyFloat(n, d) == [t |-> "float", v |-> <<n, d>>]
PyStr(s) == [t |-> "str", v |-> s]
PyEnum(c, n) == [t |-> "enum", v |-> [cls |-> c, name |-> n]]
\* An application callable, named by its identity.
PyFunc(h) == [t |-> "func", v |-> h]

\* Python's ==, on the values of the model (the option inputs never mix
\* bool, int and float for one attribute).
PyEq(a, b) ==
    /\ a.t = b.t
    /\ IF a.t = "float" THEN a.v[1] * b.v[2] = b.v[1] * a.v[2] ELSE a.v = b.v

\* Python's truth value.
Truthy(x) ==
    CASE x.t = "none" -> FALSE
      [] x.t = "bool" -> x.v
      [] x.t = "int" -> x.v # 0
      [] x.t = "float" -> x.v[1] # 0
      [] x.t = "str" -> x.v # <<>>
      [] OTHER -> TRUE

Raise(e) == [exc |-> e]
Return(x) == [exc |-> "none", val |-> x]

Digits == <<"0", "1", "2", "3", "4", "5", "6", "7", "8", "9">>
IsDigit(c) == \E d \in 1..10 : Digits[d] = c
DigitVal(c) == (CHOOSE d \in 1..10 : Digits[d] = c) - 1

RECURSIVE NatToStr(_)
NatToStr(n) ==
    IF n < 10 THEN << Digits[n + 1] >>
    ELSE NatToStr(n \div 10) \o << Digits[(n % 10) + 1] >>

\* str(n) of an int, as an f-string embeds it.
IntToStr(n) == IF n < 0 THEN <<"-">> \o NatToStr(-n) ELSE NatToStr(n)

RECURSIVE Join(_, _)
\* sep.join(parts)
Join(parts, sep) ==
    IF Len(parts) = 0 THEN <<>>
    ELSE IF Len(parts) = 1 THEN parts[1]
    ELSE parts[1] \o <<sep>> \o Join(Tail(parts), sep)

RECURSIVE Split(_, _)
\* s.split(sep): always at least one part.
Split(s, sep) ==
    IF \A k \in 1..Len(s) : s[k] # sep THEN << s >>
    ELSE LET k == CHOOSE j \in 1..Len(s) :
                      s[j] = sep /\ \A m \in 1..(j - 1) : s[m] # sep
         IN  << SubSeq(s, 1, k - 1) >> \o Split(SubSeq(s, k + 1, Len(s)), sep)

RECURSIVE DigitsVal(_)
DigitsVal(s) ==
    IF Len(s) = 0 THEN 0
    ELSE 10 * DigitsVal(SubSeq(s, 1, Len(s) - 1)) + DigitVal(s[Len(s)])

AllDigits(s) == Len(s) > 0 /\ \A k \in 1..Len(s) : IsDigit(s[k])

HasSign(s) == Len(s) > 0 /\ s[1] \in {"+", "-"}
Unsigned(s) == IF HasSign(s) THEN Tail(s) ELSE s
SignOf(s) == IF Len(s) > 0 /\ s[1] = "-" THEN -1 ELSE 1

\* int(s) of a str without blanks or underscores: an optional sign and digits.
ParseInt(s) ==
    IF AllDigits(Unsigned(s)) THEN Return(SignOf(s) * DigitsVal(Unsigned(s)))
    ELSE Raise("ValueError")

RECURSIVE Pow10(_)
Pow10(k) == IF k = 0 THEN 1 ELSE 10 * Pow10(k - 1)

\* float(s) of a str over digits, sign and point (no exponent, no inf or nan,
\* no blanks): digits with an optional point, at least one digit.
ParseFloat(s) ==
    LET u == Unsigned(s)
        parts == Split(u, ".")
        ip == parts[1]
        fp == IF Len(parts) = 2 THEN parts[2] ELSE <<>>
        wellFormed ==
            /\ Len(parts) <= 2
            /\ \A k \in 1..Len(ip) : IsDigit(ip[k])
            /\ \A k \in 1..Len(fp) : IsDigit(fp[k])
            /\ Len(ip) + Len(fp) > 0
    IN  IF wellFormed
        THEN Return(<< SignOf(s) * (DigitsVal(ip) * Pow10(Len(fp)) + DigitsVal(fp)),
                       Pow10(Len(fp)) >>)
        ELSE Raise("ValueError")

UpperCase == <<"A","B","C","D","E","F","G","H","I","J","K","L","M",
               "N","O","P","Q","R","S","T","U","V","W","X","Y","Z">>
LowerCase == <<"a","b","c","d","e","f","g","h","i","j","k","l","m",
               "n","o","p","q","r","s","t","u","v","w","x","y","z">>
LowerChar(c) ==
    IF \E k \in 1..26 : UpperCase[k] = c
    THEN LowerCase[CHOOSE k \in 1..26 : UpperCase[k] = c]
    ELSE c
\* s.lower()
Lower(s) == [k \in 1..Len(s) |-> LowerChar(s[k])]

-----------------------------------------------------------------------------
(* The enums: member name |-> wire value. *)

ScrollDirection ==
    [ HORIZONTAL |-> <<"h","o","r","i","z","o","n","t","a","l">>,
      VERTICAL |-> <<"v","e","r","t","i","c","a","l">> ]

AnimateToCurve ==
    [ LINEAR |-> <<"l","i","n","e","a","r">>,
      EASE_IN |-> <<"e","a","s","e","I","n">>,
      EASE_OUT |-> <<"e","a","s","e","O","u","t">>,
      EASE_IN_OUT |-> <<"e","a","s","e","I","n","O","u","t">>,
      BOUNCE_IN |-> <<"b","o","u","n","c","e","I","n">>,
      BOUNCE_OUT |-> <<"b","o","u","n","c","e","O","u","t">>,
      ELASTIC_IN |-> <<"e","l","a","s","t","i","c","I","n">>,
      ELASTIC_OUT |-> <<"e","l","a","s","t","i","c","O","u","t">>,
      DECELERATE |-> <<"d","e","c","e","l","e","r","a","t","e">>,
      FAST_OUT_SLOW_IN |-> <<"f","a","s","t","O","u","t","S","l","o","w","I","n">> ]

EnlargeStrategy ==
    [ SCALE |-> <<"s","c","a","l","e">>,
      HEIGHT |-> <<"h","e","i","g","h","t">>,
      ZOOM |-> <<"z","o","o","m">> ]

ClipBehavior ==
    [ NONE |-> <<"n","o","n","e">>,
      HARD_EDGE |-> <<"h","a","r","d","E","d","g","e">>,
      ANTI_ALIAS |-> <<"a","n","t","i","A","l","i","a","s">>,
      ANTI_ALIAS_WITH_SAVE_LAYER |->
          <<"a","n","t","i","A","l","i","a","s","W","i","t","h",
            "S","a","v","e","L","a","y","e","r">> ]

CarouselPageChangedReason ==
    [ TIMED |-> <<"t","i","m","e","d">>,
      MANUAL |-> <<"m","a","n","u","a","l">>,
      CONTROLLER |-> <<"c","o","n","t","r","o","l","l","e","r">> ]

EnumClass(c) ==
    CASE c = "ScrollDirection" -> ScrollDirection
      [] c = "AnimateToCurve" -> AnimateToCurve
      [] c = "EnlargeStrategy" -> EnlargeStrategy
      [] c = "ClipBehavior" -> ClipBehavior
      [] c = "CarouselPageChangedReason" -> CarouselPageChangedReason

Members(c) == { PyEnum(c, n) : n \in DOMAIN EnumClass(c) }

\* isinstance(x, c) for an enum class c
IsInstance(x, c) == x.t = "enum" /\ x.v.cls = c

\* member.value
EnumValue(m) == EnumClass(m.v.cls)[m.v.name]

\* c(s): the member of c whose value is s, or ValueError.
EnumLookup(c, s) ==
    IF \E n \in DOMAIN EnumClass(c) : EnumClass(c)[n] = s
    THEN Return(PyEnum(c, CHOOSE n \in DOMAIN EnumClass(c) : EnumClass(c)[n] = s))
    ELSE Raise("ValueError")

\* str(x) of the values a command embeds.
ToStr(x) ==
    CASE x.t = "str" -> x.v
      [] x.t = "int" -> IntToStr(x.v)
      [] x.t = "none" -> <<"N","o","n","e">>
      [] x.t = "bool" -> IF x.v THEN <<"T","r","u","e">> ELSE <<"F","a","l","s","e">>

-----------------------------------------------------------------------------
(* The typed events. *)

DefaultChangeData == <<"0", ":", "m", "a", "n", "u", "a", "l">>

\* CarouselChangeEvent(e) for a raw event whose data is `data` (a str or None).
CarouselChangeEvent(data) ==
    LET parts == Split(IF Truthy(data) THEN data.v ELSE DefaultChangeData, ":")
        index == ParseInt(parts[1])
    IN  IF index.exc # "none" THEN Raise("ValueError")
        ELSE IF Len(parts) < 2 THEN Raise("IndexError")
        ELSE LET reason == EnumLookup("CarouselPageChangedReason", parts[2])
             IN  Return([ cls |-> "CarouselChangeEvent",
                          data |-> data,
                          index |-> index.val,
                          reason |-> IF reason.exc = "none" THEN reason.val
                                     ELSE PyEnum("CarouselPageChangedReason", "MANUAL") ])

\* CarouselScrolledEvent(e) for a raw event whose data is `data`.
CarouselScrolledEvent(data) ==
    LET value == IF Truthy(data) THEN ParseFloat(data.v) ELSE Return(<<0, 1>>)
    IN  IF value.exc # "none" THEN Raise("ValueError")
        ELSE Return([ cls |-> "CarouselScrolledEvent",
                      data |-> data,
                      value |-> PyFloat(value.val[1], value.val[2]) ])

-----------------------------------------------------------------------------
(* Control's attribute store, as Carousel uses it. *)

NoAttr == [has |-> FALSE, val |-> PyNone, dirty |-> FALSE]

\* Control._set_attr(name, value) on the store a: None for an absent
\* attribute changes nothing, None is stored as "", and an entry is
\* rewritten (and marked dirty) only when the value differs.
set_attr(a, name, value) ==
    LET orig == a[name]
        v == IF value.t = "none" THEN PyStr(<<>>) ELSE value
    IN  IF ~orig.has /\ value.t = "none" THEN a
        ELSE IF ~orig.has \/ ~PyEq(orig.val, v)
             THEN [a EXCEPT ![name] = [has |-> TRUE, val |-> v, dirty |-> TRUE]]
             ELSE a

\* Control._get_attr(name, data_type, def_value) on the store a: a stored str
\* is converted according to data_type, any other stored value is returned
\* as it is.
get_attr(a, name, data_type, def_value) ==
    LET s_val == a[name].val
    IN  IF ~a[name].has THEN Return(def_value)
        ELSE IF data_type = "bool" /\ s_val.t = "str"
             THEN Return(PyBool(Lower(s_val.v) = <<"t","r","u","e">>))
        ELSE IF data_type = "float" /\ s_val.t = "str"
             THEN LET f == ParseFloat(s_val.v)
                  IN  IF f.exc = "none" THEN Return(PyFloat(f.val[1], f.val[2]))
                      ELSE Raise("ValueError")
        ELSE IF data_type = "int" /\ s_val.t = "str"
             THEN LET n == ParseInt(s_val.v)
                  IN  IF n.exc = "none" THEN Return(PyInt(n.val))
                      ELSE Raise("ValueError")
        ELSE Return(s_val)

-----------------------------------------------------------------------------
(* The options of Carousel: for each property, the attribute key, the        *)
(* data_type and def_value its getter passes to _get_attr, and, for the      *)
(* four enum options, the enum class its setter tests with isinstance.      *)

AttrOption(k, dt, dv) == [key |-> k, data_type |-> dt, def_value |-> dv, enum |-> ""]
EnumOption(k, c) == [key |-> k, data_type |-> "", def_value |-> PyNone, enum |-> c]

OptionTable ==
    [ height |-> AttrOption("height", "float", PyNone),
      aspect_ratio |-> AttrOption("aspectRatio", "float", PyFloat(16, 9)),
      viewport_fraction |-> AttrOption("viewportFraction", "float", PyFloat(8, 10)),
      initial_page |-> AttrOption("initialPage", "int", PyInt(0)),
      enable_infinite_scroll |-> AttrOption("enableInfiniteScroll", "bool", PyBool(TRUE)),
      disablegesture |-> AttrOption("disableGesture", "bool", PyBool(FALSE)),
      enable_indicator |-> AttrOption("enableindicator", "bool", PyBool(TRUE)),
      indicatorwidth |-> AttrOption("indicatorwidth", "int", PyNone),
      indicator_inactive_color |-> AttrOption("indicatorInactiveColor", "int", PyNone),
      indicator_active_color |-> AttrOption("indicatorActiveColor", "bool", PyNone),
      build_on_demand |-> AttrOption("build_on_demand", "bool", PyBool(FALSE)),
      animate_to_closest |-> AttrOption("animateToClosest", "bool", PyBool(TRUE)),
      reverse |-> AttrOption("reverse", "bool", PyBool(FALSE)),
      auto_play |-> AttrOption("autoPlay", "bool", PyBool(FALSE)),
      auto_play_interval |-> AttrOption("autoPlayInterval", "int", PyInt(4000)),
      auto_play_animation_duration |->
          AttrOption("autoPlayAnimationDuration", "int", PyInt(800)),
      auto_play_curve |-> EnumOption("autoPlayCurve", "AnimateToCurve"),
      enlarge_center_page |-> AttrOption("enlargeCenterPage", "bool", PyBool(FALSE)),
      enlarge_strategy |-> EnumOption("enlargeStrategy", "EnlargeStrategy"),
      enlarge_factor |-> AttrOption("enlargeFactor", "float", PyFloat(3, 10)),
      page_snapping |-> AttrOption("pageSnapping", "bool", PyBool(TRUE)),
      scroll_direction |-> EnumOption("scrollDirection", "ScrollDirection"),
      pause_auto_play_on_touch |-> AttrOption("pauseAutoPlayOnTouch", "bool", PyBool(TRUE)),
      pause_auto_play_on_manual_navigate |->
          AttrOption("pauseAutoPlayOnManualNavigate", "bool", PyBool(TRUE)),
      pause_auto_play_in_finite_scroll |->
          AttrOption("pauseAutoPlayInFiniteScroll", "bool", PyBool(FALSE)),
      disable_center |-> AttrOption("disableCenter", "bool", PyBool(FALSE)),
      pad_ends |-> AttrOption("padEnds", "bool", PyBool(TRUE)),
      clip_behavior |-> EnumOption("clipBehavior", "ClipBehavior") ]

Options == DOMAIN OptionTable
EnumOptions == { o \in Options : OptionTable[o].enum # "" }
CommandKey == "__animateTo"
AttrKeys == { OptionTable[o].key : o \in Options } \cup { CommandKey }

\* The getter of option o on one instance (its store a, its private fields p).
Getter(a, p, o) ==
    IF o \in EnumOptions THEN Return(p[o])
    ELSE get_attr(a, OptionTable[o].key, OptionTable[o].data_type,
                  OptionTable[o].def_value)

\* What the setter of option o writes to the store.
SetterAttrs(a, o, value) ==
    IF o \in EnumOptions
    THEN set_attr(a, OptionTable[o].key,
                  IF IsInstance(value, OptionTable[o].enum)
                  THEN PyStr(EnumValue(value)) ELSE value)
    ELSE set_attr(a, OptionTable[o].key, value)

\* What the setter of option o leaves in the private fields.
SetterPrivate(p, o, value) ==
    IF o \in EnumOptions THEN [p EXCEPT ![o] = value] ELSE p

\* The defaults of Carousel.__init__'s parameters.
CtorDefaults ==
    [ height |-> PyNone,
      aspect_ratio |-> PyFloat(16, 9),
      viewport_fraction |-> PyFloat(8, 10),
      initial_page |-> PyInt(0),
      disablegesture |-> PyBool(FALSE),
      enable_indicator |-> PyBool(TRUE),
      indicatorwidth |-> PyNone,
      indicator_inactive_color |-> PyNone,
      indicator_active_color |-> PyNone,
      build_on_demand |-> PyBool(FALSE),
      enable_infinite_scroll |-> PyBool(TRUE),
      animate_to_closest |-> PyBool(TRUE),
      reverse |-> PyBool(FALSE),
      auto_play |-> PyBool(FALSE),
      auto_play_interval |-> PyInt(4000),
      auto_play_animation_duration |-> PyInt(800),
      auto_play_curve |-> PyEnum("AnimateToCurve", "FAST_OUT_SLOW_IN"),
      enlarge_center_page |-> PyBool(FALSE),
      enlarge_strategy |-> PyEnum("EnlargeStrategy", "SCALE"),
      enlarge_factor |-> PyFloat(3, 10),
      page_snapping |-> PyBool(TRUE),
      scroll_direction |-> PyEnum("ScrollDirection", "HORIZONTAL"),
      pause_auto_play_on_touch |-> PyBool(TRUE),
      pause_auto_play_on_manual_navigate |-> PyBool(TRUE),
      pause_auto_play_in_finite_scroll |-> PyBool(FALSE),
      disable_center |-> PyBool(FALSE),
      pad_ends |-> PyBool(TRUE),
      clip_behavior |-> PyEnum("ClipBehavior", "HARD_EDGE") ]

\* A slip in the parameter list: the two auto-play defaults exchanged.
CtorDefaultSwapped(o) ==
    IF o = "auto_play_interval" THEN CtorDefaults["auto_play_animation_duration"]
    ELSE IF o = "auto_play_animation_duration" THEN CtorDefaults["auto_play_interval"]
    ELSE CtorDefaults[o]

\* The value __init__ assigns to option o when the caller gives none.
CtorDefault(o) == CtorDefaults[o]

\* The store after __init__ assigned every option its default, each through
\* its setter (every option has an attribute key of its own, so the order of
\* the assignments does not matter).
CtorAttrs ==
    LET empty == [key \in AttrKeys |-> NoAttr]
        OptionOf(key) == CHOOSE o \in Options : OptionTable[o].key = key
    IN  [key \in AttrKeys |->
            IF key = CommandKey THEN NoAttr
            ELSE SetterAttrs(empty, OptionOf(key), CtorDefault(OptionOf(key)))[key]]

\* The private fields after __init__.
CtorPrivate == [o \in EnumOptions |-> CtorDefault(o)]

\* Mounting the control sends the whole store to the host: nothing is dirty.
Mounted(a) == [key \in AttrKeys |-> [a[key] EXCEPT !.dirty = FALSE]]

-----------------------------------------------------------------------------
(* The state after construction: every instance built by Carousel(controls) *)
(* with no option given, and mounted on the page.                           *)

InitialControls == << "page0", "page1", "page2" >>
EventNames == {"change", "scrolled"}

Init ==
    /\ attrs = [i \in Instances |-> Mounted(CtorAttrs)]
    /\ private = [i \in Instances |-> CtorPrivate]
    /\ controls = [i \in Instances |-> InitialControls]
    /\ cmd_counter = [i \in Instances |-> 0]
    /\ on_handler = [i \in Instances |-> [ev \in EventNames |-> PyNone]]
    /\ event_handlers = [i \in Instances |-> [ev \in EventNames |-> PyNone]]
    /\ hostCmds = [i \in Instances |-> <<>>]
    /\ updates = [i \in Instances |-> 0]
    /\ written = [i \in Instances |-> <<>>]
    /\ lastCall = [op |-> "__init__"]
    /\ outcome = Return(PyNone)
    /\ invoked = <<>>
    /\ touched = [i \in Instances |-> {}]
    /\ nops = 0

\* Every operation records what was called and what it returned or raised.
Called(call, result) ==
    /\ nops < MaxOps
    /\ lastCall' = call
    /\ outcome' = result
    /\ nops' = nops + 1

-----------------------------------------------------------------------------
(* The option setters and the controls setter. *)

\* The setter of option o, called with `value` on instance i.
SetOption(i, o, value) ==
    /\ Called([op |-> "set", inst |-> i, option |-> o, value |-> value], Return(PyNone))
    /\ attrs' = [attrs EXCEPT ![i] = SetterAttrs(@, o, value)]
    /\ private' = [private EXCEPT ![i] = SetterPrivate(@, o, value)]
    /\ touched' = [touched EXCEPT ![i] = @ \cup {o}]
    /\ invoked' = <<>>
    /\ UNCHANGED << controls, cmd_counter, on_handler, event_handlers,
                    hostCmds, updates, written >>

\* The list the controls setter keeps: None becomes the empty list.
ControlsValue(value) == IF value.t # "none" THEN value.v ELSE <<>>

\* Carousel.controls = value
SetControls(i, value) ==
    /\ Called([op |-> "set_controls", inst |-> i, value |-> value], Return(PyNone))
    /\ controls' = [controls EXCEPT ![i] = ControlsValue(value)]
    /\ invoked' = <<>>
    /\ UNCHANGED << attrs, private, cmd_counter, on_handler, event_handlers,
                    hostCmds, updates, written, touched >>

-----------------------------------------------------------------------------
(* The controller methods. *)

\* A _next_cmd that returns the counter and forgets the increment.
next_cmd_stuck(counter) == counter

\* A _next_cmd that increments twice.
next_cmd_skip(counter) == counter + 2

\* _next_cmd: the counter after the increment, which is also the token.
next_cmd(counter) == counter + 1

\* curve.value if isinstance(curve, AnimateToCurve) else str(curve)
curve_id(curve) ==
    IF IsInstance(curve, "AnimateToCurve") THEN EnumValue(curve) ELSE ToStr(curve)

\* An animate_to_page that clamps a negative index to the first page.
AnimateToCommandClamped(index, duration, curve, token) ==
    ToStr(IF index.v < 0 THEN PyInt(0) ELSE index) \o <<":">> \o ToStr(duration)
        \o <<":">> \o curve_id(curve) \o <<":">> \o IntToStr(token)

\* f"{index}:{duration}:{curve_id}:{token}"
AnimateToCommand(index, duration, curve, token) ==
    ToStr(index) \o <<":">> \o ToStr(duration) \o <<":">>
        \o curve_id(curve) \o <<":">> \o IntToStr(token)

\* f"__next:{duration}:{curve_id}:{token}"
NextCommand(duration, curve, token) ==
    <<"_","_","n","e","x","t">> \o <<":">> \o ToStr(duration) \o <<":">>
        \o curve_id(curve) \o <<":">> \o IntToStr(token)

\* f"__prev:{duration}:{curve_id}:{token}"
PrevCommand(duration, curve, token) ==
    <<"_","_","p","r","e","v">> \o <<":">> \o ToStr(duration) \o <<":">>
        \o curve_id(curve) \o <<":">> \o IntToStr(token)

\* f"__jump:{index}:none:{token}"
JumpCommand(index, token) ==
    <<"_","_","j","u","m","p">> \o <<":">> \o ToStr(index) \o <<":">>
        \o <<"n","o","n","e">> \o <<":">> \o IntToStr(token)

\* A navigation method that also records the token as the initial page.
DispatchInitialPage(i, cmd) ==
    LET a == set_attr(set_attr(attrs[i], CommandKey, PyStr(cmd)),
                      "initialPage", PyInt(next_cmd(cmd_counter[i])))
    IN  /\ cmd_counter[i] < MaxCmds
        /\ cmd_counter' = [cmd_counter EXCEPT ![i] = next_cmd(@)]
        /\ written' = [written EXCEPT ![i] = Append(@, [call |-> lastCall', cmd |-> cmd])]
        /\ attrs' = [attrs EXCEPT ![i] = Mounted(a)]
        /\ hostCmds' = [hostCmds EXCEPT ![i] =
                            IF a[CommandKey].dirty THEN Append(@, a[CommandKey].val.v)
                            ELSE @]
        /\ updates' = [updates EXCEPT ![i] = @ + 1]
        /\ invoked' = <<>>
        /\ UNCHANGED << private, controls, on_handler, event_handlers, touched >>

\* A navigation method that writes the command and forgets self.update().
DispatchNoUpdate(i, cmd) ==
    /\ cmd_counter[i] < MaxCmds
    /\ cmd_counter' = [cmd_counter EXCEPT ![i] = next_cmd(@)]
    /\ written' = [written EXCEPT ![i] = Append(@, [call |-> lastCall', cmd |-> cmd])]
    /\ attrs' = [attrs EXCEPT ![i] = set_attr(@, CommandKey, PyStr(cmd))]
    /\ invoked' = <<>>
    /\ UNCHANGED << private, controls, on_handler, event_handlers, touched,
                    hostCmds, updates >>

\* self._set_attr("__animateTo", cmd) with the token of _next_cmd(), then
\* self.update(): the dirty attributes go to the host and are clean again.
Dispatch(i, cmd) ==
    LET a == set_attr(attrs[i], CommandKey, PyStr(cmd))
    IN  /\ cmd_counter[i] < MaxCmds
        /\ cmd_counter' = [cmd_counter EXCEPT ![i] = next_cmd(@)]
        /\ written' = [written EXCEPT ![i] = Append(@, [call |-> lastCall', cmd |-> cmd])]
        /\ attrs' = [attrs EXCEPT ![i] = Mounted(a)]
        /\ hostCmds' = [hostCmds EXCEPT ![i] =
                            IF a[CommandKey].dirty THEN Append(@, a[CommandKey].val.v)
                            ELSE @]
        /\ updates' = [updates EXCEPT ![i] = @ + 1]
        /\ invoked' = <<>>
        /\ UNCHANGED << private, controls, on_handler, event_handlers, touched >>

animate_to_page(i, index, duration, curve) ==
    /\ Called([op |-> "animate_to_page", inst |-> i, index |-> index,
               duration |-> duration, curve |-> curve], Return(PyNone))
    /\ Dispatch(i, AnimateToCommand(index, duration, curve, next_cmd(cmd_counter[i])))

next_page(i, duration, curve) ==
    /\ Called([op |-> "next_page", inst |-> i, duration |-> duration,
               curve |-> curve], Return(PyNone))
    /\ Dispatch(i, NextCommand(duration, curve, next_cmd(cmd_counter[i])))

previous_page(i, duration, curve) ==
    /\ Called([op |-> "previous_page", inst |-> i, duration |-> duration,
               curve |-> curve], Return(PyNone))
    /\ Dispatch(i, PrevCommand(duration, curve, next_cmd(cmd_counter[i])))

jump_to_page(i, index) ==
    /\ Called([op |-> "jump_to_page", inst |-> i, index |-> index], Return(PyNone))
    /\ Dispatch(i, JumpCommand(index, next_cmd(cmd_counter[i])))

-----------------------------------------------------------------------------
(* The event handlers. *)

\* The closure _wrap of a handler setter, which captures `handler`.
Wrap(handler) == [t |-> "wrap", v |-> handler]

\* _wrap if handler else None
Registered(handler) == IF Truthy(handler) THEN Wrap(handler) ELSE PyNone

\* Carousel.on_change = handler
SetOnChange(i, handler) ==
    /\ Called([op |-> "set_on_change", inst |-> i, handler |-> handler], Return(PyNone))
    /\ on_handler' = [on_handler EXCEPT ![i]["change"] = handler]
    /\ event_handlers' = [event_handlers EXCEPT ![i]["change"] = Registered(handler)]
    /\ invoked' = <<>>
    /\ UNCHANGED << attrs, private, controls, cmd_counter, hostCmds, updates,
                    written, touched >>

\* Carousel.on_scrolled = handler
SetOnScrolled(i, handler) ==
    /\ Called([op |-> "set_on_scrolled", inst |-> i, handler |-> handler], Return(PyNone))
    /\ on_handler' = [on_handler EXCEPT ![i]["scrolled"] = handler]
    /\ event_handlers' = [event_handlers EXCEPT ![i]["scrolled"] = Registered(handler)]
    /\ invoked' = <<>>
    /\ UNCHANGED << attrs, private, controls, cmd_counter, hostCmds, updates,
                    written, touched >>

\* What running the registered callable on a raw event does: None registered
\* runs nothing; _wrap builds the typed event and calls the captured handler
\* with it, unless building it raises.
RunHandler(registered, event) ==
    IF registered.t = "none" THEN [result |-> Return(PyNone), calls |-> <<>>]
    ELSE IF ~Truthy(registered.v) THEN [result |-> Return(PyNone), calls |-> <<>>]
    ELSE IF event.exc # "none" THEN [result |-> event, calls |-> <<>>]
    ELSE [ result |-> Return(PyNone),
           calls |-> << [handler |-> registered.v, event |-> event.val] >> ]

\* The host delivers a raw `change` event with payload `data` to instance i.
DeliverChange(i, data) ==
    LET run == RunHandler(event_handlers[i]["change"], CarouselChangeEvent(data))
    IN  /\ Called([op |-> "deliver", inst |-> i, name |-> "change", data |-> data],
                  run.result)
        /\ invoked' = run.calls
        /\ UNCHANGED << attrs, private, controls, cmd_counter, on_handler,
                        event_handlers, hostCmds, updates, written, touched >>

\* The host delivers a raw `scrolled` event with payload `data` to instance i.
DeliverScrolled(i, data) ==
    LET run == RunHandler(event_handlers[i]["scrolled"], CarouselScrolledEvent(data))
    IN  /\ Called([op |-> "deliver", inst |-> i, name |-> "scrolled", data |-> data],
                  run.result)
        /\ invoked' = run.calls
        /\ UNCHANGED << attrs, private, controls, cmd_counter, on_handler,
                        event_handlers, hostCmds, updates, written, touched >>

-----------------------------------------------------------------------------
(* The inputs of the operations. *)

Red == <<"r","e","d">>
Teal == <<"t","e","a","l">>

ColorOptions == {"indicator_inactive_color", "indicator_active_color"}

\* Values of the type each option is annotated with.
OptionValues(o) ==
    IF o \in EnumOptions
    THEN Members(OptionTable[o].enum)
             \cup { IF o = "clip_behavior" THEN PyEnum("EnlargeStrategy", "ZOOM")
                    ELSE PyEnum("ClipBehavior", "NONE") }
    ELSE IF o \in ColorOptions THEN { PyStr(Red), PyStr(Teal) }
    ELSE IF OptionTable[o].data_type = "bool" THEN { PyBool(TRUE), PyBool(FALSE) }
    ELSE IF OptionTable[o].data_type = "int" THEN { PyInt(0), PyInt(120) }
    ELSE { PyFloat(1, 2), PyFloat(200, 1) }

\* One option of each type, for the specification of all operations.
SomeOptions ==
    {"height", "initial_page", "auto_play", "indicator_active_color", "auto_play_curve"}
SomeValues(o) ==
    CASE o = "height" -> { PyFloat(200, 1) }
      [] o = "initial_page" -> { PyInt(120) }
      [] o = "auto_play" -> { PyBool(TRUE) }
      [] o = "indicator_active_color" -> { PyStr(Red) }
      [] o = "auto_play_curve" -> { PyEnum("AnimateToCurve", "EASE_IN") }

ControlLists == { PyNone, [t |-> "list", v |-> << "page9" >>] }

Handlers == { PyNone, PyFunc("h1"), PyFunc("h2") }

\* Page indexes: negative, inside and beyond the three children.
Indexes == { PyInt(-1), PyInt(0), PyInt(3) }
Durations == { PyInt(0), PyInt(500) }
\* Every AnimateToCurve, and a curve that is no AnimateToCurve.
Curves == Members("AnimateToCurve") \cup { PyStr(<<"x">>) }
SomeCurves ==
    { PyEnum("AnimateToCurve", "EASE_IN"), PyEnum("AnimateToCurve", "FAST_OUT_SLOW_IN"),
      PyStr(<<"x">>) }

\* Payloads of `change`: an index part, then nothing or ":" and a reason part.
IndexParts == { <<>>, <<"0">>, <<"3">>, <<"1","2">>, <<"-","1">>, <<"a","b","c">> }
ReasonParts ==
    { <<>>, <<"t","i","m","e","d">>, <<"m","a","n","u","a","l">>,
      <<"c","o","n","t","r","o","l","l","e","r">>, <<"b","o","g","u","s">>,
      <<"T","i","m","e","d">>, <<"t","i","m","e","d",":","x">> }
ChangePayloads ==
    { PyNone } \cup { PyStr(ip) : ip \in IndexParts }
        \cup { PyStr(ip \o <<":">> \o rp) : ip \in IndexParts, rp \in ReasonParts }

\* Payloads of `scrolled`: the strings of at most MaxPayload characters over
\* digits, point, sign and a letter, and "0.42".
MaxPayload == 2
ScrollChars == { "0", "4", ".", "-", "x" }
ScrollPayloads ==
    { PyNone, PyStr(<<"0", ".", "4", "2">>) }
        \cup UNION { { PyStr(s) : s \in [1..n -> ScrollChars] } : n \in 0..MaxPayload }

-----------------------------------------------------------------------------
(* The specifications. *)

\* The controller methods of one instance, over all curves.
NextNav ==
    \/ \E index \in Indexes, duration \in Durations, curve \in SomeCurves :
           animate_to_page(1, index, duration, curve)
    \/ \E duration \in Durations, curve \in Curves : next_page(1, duration, curve)
    \/ \E duration \in Durations, curve \in Curves : previous_page(1, duration, curve)
    \/ \E index \in Indexes : jump_to_page(1, index)

SpecNav == Init /\ [][NextNav]_vars

\* The option setters of one instance, over all options.
NextOpts ==
    /\ nops < MaxSets
    /\ \E o \in Options : \E value \in OptionValues(o) : SetOption(1, o, value)

SpecOpts == Init /\ [][NextOpts]_vars

\* Handler registration and event delivery on one instance, over all payloads.
NextEvents ==
    \/ \E handler \in Handlers : SetOnChange(1, handler)
    \/ \E handler \in Handlers : SetOnScrolled(1, handler)
    \/ \E data \in ChangePayloads : DeliverChange(1, data)
    \/ \E data \in ScrollPayloads : DeliverScrolled(1, data)

SpecEvents == Init /\ [][NextEvents]_vars

\* Every operation, on every instance.
Next ==
    \E i \in Instances :
        \/ animate_to_page(i, PyInt(3), PyInt(500), PyEnum("AnimateToCurve", "EASE_IN"))
        \/ next_page(i, PyInt(300), PyEnum("AnimateToCurve", "FAST_OUT_SLOW_IN"))
        \/ previous_page(i, PyInt(300), PyEnum("AnimateToCurve", "FAST_OUT_SLOW_IN"))
        \/ \E index \in { PyInt(-1), PyInt(3) } : jump_to_page(i, index)
        \/ \E o \in SomeOptions : \E value \in SomeValues(o) : SetOption(i, o, value)
        \/ \E value \in ControlLists : SetControls(i, value)
        \/ \E handler \in { PyNone, PyFunc("h1") } : SetOnChange(i, handler)
        \/ \E handler \in { PyNone, PyFunc("h1") } : SetOnScrolled(i, handler)
        \/ DeliverChange(i, PyStr(<<"3",":","t","i","m","e","d">>))
        \/ DeliverScrolled(i, PyStr(<<"0",".","4","2">>))

Spec == Init /\ [][Next]_vars

-----------------------------------------------------------------------------
(* Properties. *)

NavOps == {"animate_to_page", "next_page", "previous_page", "jump_to_page"}

\* The place of the last ":" of a command, the command up to and including
\* it, and the token segment after it.
LastColon(cmd) ==
    CHOOSE k \in 1..Len(cmd) : cmd[k] = ":" /\ \A m \in (k + 1)..Len(cmd) : cmd[m] # ":"
WithoutToken(cmd) == SubSeq(cmd, 1, LastColon(cmd))
TokenOf(cmd) == SubSeq(cmd, LastColon(cmd) + 1, Len(cmd))

\* Two calls of the same method with the same arguments.
SameCall(c, d) ==
    /\ c.op = d.op
    /\ c = d

\* C1: on one instance no navigation call writes a command string an earlier
\* call wrote, and two calls of the same method with the same arguments write
\* strings that differ only in the trailing token segment.
C1_CommandsDistinct ==
    \A i \in Instances : \A j, k \in 1..Len(written[i]) :
        j < k =>
            /\ written[i][j].cmd # written[i][k].cmd
            /\ SameCall(written[i][j].call, written[i][k].call) =>
                   /\ WithoutToken(written[i][j].cmd) = WithoutToken(written[i][k].cmd)
                   /\ TokenOf(written[i][j].cmd) # TokenOf(written[i][k].cmd)

\* The same method was called twice in a row with the same arguments.
C1_Witness ==
    /\ Len(written[1]) >= 2
    /\ SameCall(written[1][1].call, written[1][2].call)

\* The first segment of a change payload is an unsigned decimal integer.
IsDecimal(s) == Len(s) > 0 /\ \A k \in 1..Len(s) : IsDigit(s[k])

Manual == PyEnum("CarouselPageChangedReason", "MANUAL")

\* The reason the documentation gives for a reason segment.
DocumentedReason(r) ==
    IF r = <<"t","i","m","e","d">> THEN PyEnum("CarouselPageChangedReason", "TIMED")
    ELSE IF r = <<"c","o","n","t","r","o","l","l","e","r">>
         THEN PyEnum("CarouselPageChangedReason", "CONTROLLER")
    ELSE Manual

\* The last operation delivered an event to a registered _wrap, which built
\* the typed event from the payload.
Translated(name) ==
    /\ lastCall.op = "deliver"
    /\ lastCall.name = name
    /\ event_handlers[lastCall.inst][name].t = "wrap"

\* C2: building a CarouselChangeEvent raises for no payload, and a payload
\* whose first segment is no integer yields index 0 and reason MANUAL.
C2_ChangeEventNeverRaises ==
    Translated("change") =>
        LET first == IF Truthy(lastCall.data) THEN Split(lastCall.data.v, ":")[1]
                     ELSE <<"0">>
        IN  /\ outcome.exc = "none"
            /\ Len(invoked) = 1
            /\ ParseInt(first).exc # "none" =>
                   (invoked[1].event.index = 0 /\ invoked[1].event.reason = Manual)

\* C3: a payload "<i>:<r>" with a decimal <i> yields index i and the reason
\* of <r> (TIMED for "timed", CONTROLLER for "controller", MANUAL for every
\* other and for a missing <r>); the empty payload yields index 0, MANUAL.
C3_ChangeEventFields ==
    Translated("change") =>
        LET parts == IF Truthy(lastCall.data) THEN Split(lastCall.data.v, ":")
                     ELSE << <<"0">>, <<"m","a","n","u","a","l">> >>
        IN  IsDecimal(parts[1]) =>
                /\ Len(invoked) = 1
                /\ invoked[1].event.index = DigitsVal(parts[1])
                /\ invoked[1].event.reason =
                       DocumentedReason(IF Len(parts) >= 2 THEN parts[2] ELSE <<>>)

\* C4: building a CarouselScrolledEvent raises for no payload: a float
\* literal yields its value, any other payload yields 0.0.
C4_ScrolledEventNeverRaises ==
    Translated("scrolled") =>
        LET literal == IF Truthy(lastCall.data) THEN ParseFloat(lastCall.data.v)
                       ELSE Raise("ValueError")
        IN  /\ outcome.exc = "none"
            /\ Len(invoked) = 1
            /\ PyEq(invoked[1].event.value,
                    IF literal.exc = "none" THEN PyFloat(literal.val[1], literal.val[2])
                    ELSE PyFloat(0, 1))

\* C5: right after an option was set to v, its getter returns v, with the
\* type of v, and does not raise.
C5_GetReturnsSet ==
    lastCall.op = "set" =>
        LET g == Getter(attrs[lastCall.inst], private[lastCall.inst], lastCall.option)
        IN  g.exc = "none" /\ PyEq(g.val, lastCall.value)

\* The defaults of the interface table of the documentation.
DocumentedDefault ==
    [ height |-> PyNone,
      aspect_ratio |-> PyFloat(16, 9),
      viewport_fraction |-> PyFloat(8, 10),
      initial_page |-> PyInt(0),
      enable_infinite_scroll |-> PyBool(TRUE),
      disablegesture |-> PyBool(FALSE),
      enable_indicator |-> PyBool(TRUE),
      indicatorwidth |-> PyNone,
      indicator_inactive_color |-> PyNone,
      indicator_active_color |-> PyNone,
      build_on_demand |-> PyBool(FALSE),
      animate_to_closest |-> PyBool(TRUE),
      reverse |-> PyBool(FALSE),
      auto_play |-> PyBool(FALSE),
      auto_play_interval |-> PyInt(4000),
      auto_play_animation_duration |-> PyInt(800),
      auto_play_curve |-> PyStr(<<"f","a","s","t","O","u","t","S","l","o","w","I","n">>),
      enlarge_center_page |-> PyBool(FALSE),
      enlarge_strategy |-> PyStr(<<"s","c","a","l","e">>),
      enlarge_factor |-> PyFloat(3, 10),
      page_snapping |-> PyBool(TRUE),
      scroll_direction |-> PyStr(<<"h","o","r","i","z","o","n","t","a","l">>),
      pause_auto_play_on_touch |-> PyBool(TRUE),
      pause_auto_play_on_manual_navigate |-> PyBool(TRUE),
      pause_auto_play_in_finite_scroll |-> PyBool(FALSE),
      disable_center |-> PyBool(FALSE),
      pad_ends |-> PyBool(TRUE),
      clip_behavior |-> PyStr(<<"h","a","r","d","E","d","g","e">>) ]

\* An enum member compares by its wire string.
Wire(x) == IF x.t = "enum" THEN PyStr(EnumValue(x)) ELSE x

\* C6: the getter of every option that was not set since construction
\* returns the documented default of the option.
C6_UnsetOptionsDefault ==
    \A i \in Instances : \A o \in Options \ touched[i] :
        LET g == Getter(attrs[i], private[i], o)
        IN  /\ g.exc = "none"
            /\ PyEq(Wire(g.val), DocumentedDefault[o])
            /\ o \in EnumOptions => IsInstance(g.val, OptionTable[o].enum)

\* Some options were set, and others were not.
C6_Witness ==
    /\ "height" \in touched[1]
    /\ "auto_play_curve" \in touched[1]
    /\ "viewport_fraction" \notin touched[1]

\* The command the documentation gives for a navigation call.
DocumentedCommand(call, token) ==
    CASE call.op = "animate_to_page" ->
             Join(<< IntToStr(call.index.v), IntToStr(call.duration.v),
                     AnimateToCurve[call.curve.v.name], IntToStr(token) >>, ":")
      [] call.op = "next_page" ->
             Join(<< <<"_","_","n","e","x","t">>, IntToStr(call.duration.v),
                     AnimateToCurve[call.curve.v.name], IntToStr(token) >>, ":")
      [] call.op = "previous_page" ->
             Join(<< <<"_","_","p","r","e","v">>, IntToStr(call.duration.v),
                     AnimateToCurve[call.curve.v.name], IntToStr(token) >>, ":")
      [] call.op = "jump_to_page" ->
             Join(<< <<"_","_","j","u","m","p">>, IntToStr(call.index.v),
                     <<"n","o","n","e">>, IntToStr(token) >>, ":")

\* C7: a navigation call with an AnimateToCurve leaves exactly the documented
\* command in __animateTo, the index as given, and does not fail.
C7_CommandFormat ==
    ( /\ lastCall.op \in NavOps
      /\ lastCall.op # "jump_to_page" => IsInstance(lastCall.curve, "AnimateToCurve") )
    => /\ outcome.exc = "none"
       /\ attrs[lastCall.inst][CommandKey].has
       /\ attrs[lastCall.inst][CommandKey].val =
              PyStr(DocumentedCommand(lastCall, cmd_counter[lastCall.inst]))

\* The second call animated to an index beyond the children.
C7_Witness ==
    /\ lastCall.op = "animate_to_page"
    /\ lastCall.index.v >= Len(controls[1])
    /\ IsInstance(lastCall.curve, "AnimateToCurve")
    /\ cmd_counter[1] = 2

\* C8: the counter of an instance is the number of navigation calls made on
\* that instance, and the k-th of them carries the token k.
C8_CounterCountsCalls ==
    \A i \in Instances :
        /\ cmd_counter[i] = Len(written[i])
        /\ \A k \in 1..Len(written[i]) :
               /\ written[i][k].call.inst = i
               /\ TokenOf(written[i][k].cmd) = IntToStr(k)

\* Navigation calls were made on both instances.
C8_Witness == cmd_counter[1] = 2 /\ cmd_counter[2] = 1

\* C9: the host received every command written, in the order written, update()
\* ran once per navigation call and never otherwise, and no command waits.
C9_EveryCommandFlushed ==
    \A i \in Instances :
        /\ hostCmds[i] = [k \in 1..Len(written[i]) |-> written[i][k].cmd]
        /\ updates[i] = Len(written[i])
        /\ ~attrs[i][CommandKey].dirty

\* A setter ran after two navigation calls, and its attribute waits.
C9_Witness ==
    /\ lastCall.op = "set"
    /\ lastCall.inst = 1
    /\ updates[1] = 2
    /\ attrs[1][OptionTable[lastCall.option].key].dirty

\* C10: a delivered event invokes the handler assigned last, once, with the
\* typed event, and invokes nothing when None was assigned last.
C10_LatestHandlerInvokedOnce ==
    lastCall.op = "deliver" =>
        LET handler == on_handler[lastCall.inst][lastCall.name]
        IN  IF handler.t = "none" THEN invoked = <<>>
            ELSE /\ Len(invoked) = 1
                 /\ invoked[1].handler = handler
                 /\ invoked[1].event.data = lastCall.data
                 /\ invoked[1].event.cls =
                        IF lastCall.name = "change" THEN "CarouselChangeEvent"
                        ELSE "CarouselScrolledEvent"

EnumKeys == { OptionTable[o].key : o \in EnumOptions }

\* C11: the store entries autoPlayCurve, enlargeStrategy, scrollDirection and
\* clipBehavior always hold a wire string, never an enum object, whatever
\* enum member their setters were given.
C11_EnumAttrsAreStrings ==
    \A i \in Instances : \A key \in EnumKeys :
        attrs[i][key].has /\ attrs[i][key].val.t = "str"

\* C12: the index of every CarouselChangeEvent that was built is not negative.
C12_IndexNonNegative ==
    (Translated("change") /\ Len(invoked) = 1) => invoked[1].event.index >= 0

\* What a navigation call must leave alone on instance i: the value of every
\* configuration attribute, what every getter returns, the children and the
\* handlers.
Configuration(a, p, c, h, r) ==
    [ values |-> [key \in AttrKeys \ {CommandKey} |-> [has |-> a[key].has, val |-> a[key].val]],
      getters |-> [o \in Options |-> Getter(a, p, o)],
      children |-> c,
      handlers |-> h,
      registered |-> r ]

\* C13: a navigation call changes only __animateTo and the command counter of
\* its instance: configuration attributes, getter results, child list and
\* handlers of every instance are as before the call.
C13_NavigationFrame ==
    [][ (nops' = nops + 1 /\ lastCall'.op \in NavOps) =>
            /\ \A i \in Instances :
                   Configuration(attrs'[i], private'[i], controls'[i],
                                 on_handler'[i], event_handlers'[i])
                       = Configuration(attrs[i], private[i], controls[i],
                                       on_handler[i], event_handlers[i])
            /\ \A i \in Instances \ {lastCall'.inst} :
                   attrs'[i] = attrs[i] /\ cmd_counter'[i] = cmd_counter[i]
            /\ cmd_counter'[lastCall'.inst] # cmd_counter[lastCall'.inst]
            /\ attrs'[lastCall'.inst][CommandKey] # attrs[lastCall'.inst][CommandKey]
      ]_vars

\* A navigation call ran on an instance whose option, handler and children
\* had been changed.
C13_Witness ==
    /\ lastCall.op \in NavOps
    /\ \/ touched[lastCall.inst] # {} /\ on_handler[lastCall.inst]["change"].t = "func"
       \/ touched[lastCall.inst] # {} /\ controls[lastCall.inst] # InitialControls

=============================================================================
